---- MODULE Spec2Model ----
(***************************************************************************)
(* portgen: derivation of a TCP port from a node name (src/main.rs).       *)
(* Strings are sequences of one-character strings, so that split,          *)
(* to_lowercase, replace and parse are computed as the program computes    *)
(* them.  Enum values are the strings of their Rust names.  Option<T> and  *)
(* the outcome of a call are records tagged "Some" / "None" / "Panic".     *)
(***************************************************************************)
EXTENDS Integers, Sequences, FiniteSets, TLC

VARIABLES name, pc, config, stdout, stderr

vars == <<name, pc, config, stdout, stderr>>

\* Number of extra "-02" tokens an input name may carry after its instance.
MaxTrailing == 1

\* Largest value of the u8 field NodeConfig::instance.
U8Max == 255

\* Modulus of the u16 arithmetic of generate_port.
U16Mod == 65536

None == [tag |-> "None"]

Some(x) == [tag |-> "Some", val |-> x]

Panic == [tag |-> "Panic"]

(***************************************************************************)
(* String primitives of the Rust standard library used by the program.     *)
(***************************************************************************)
Range(f) == {f[k] : k \in DOMAIN f}

UpperChars == <<"A", "B", "C", "D", "E", "F", "G", "H", "I", "J", "K", "L", "M", "N", "O", "P", "Q", "R", "S", "T", "U", "V", "W", "X", "Y", "Z">>

LowerChars == <<"a", "b", "c", "d", "e", "f", "g", "h", "i", "j", "k", "l", "m", "n", "o", "p", "q", "r", "s", "t", "u", "v", "w", "x", "y", "z">>

DigitChars == <<"0", "1", "2", "3", "4", "5", "6", "7", "8", "9">>

to_lowercase_char(c) ==
    IF \E k \in 1..Len(UpperChars) : UpperChars[k] = c
    THEN LowerChars[CHOOSE k \in 1..Len(UpperChars) : UpperChars[k] = c]
    ELSE c

\* str::to_lowercase
to_lowercase(s) == [k \in 1..Len(s) |-> to_lowercase_char(s[k])]

RECURSIVE replace(_, _, _)
\* str::replace(from, to): every non-overlapping match, left to right.
replace(s, from, to) ==
    IF Len(s) < Len(from) \/ Len(from) = 0 THEN s
    ELSE IF SubSeq(s, 1, Len(from)) = from
         THEN to \o replace(SubSeq(s, Len(from) + 1, Len(s)), from, to)
         ELSE <<Head(s)>> \o replace(Tail(s), from, to)

RECURSIVE split_acc(_, _, _)
split_acc(s, cur, acc) ==
    IF s = <<>> THEN Append(acc, cur)
    ELSE IF Head(s) \in {"-", "."}
         THEN split_acc(Tail(s), <<>>, Append(acc, cur))
         ELSE split_acc(Tail(s), Append(cur, Head(s)), acc)

\* name.split(&['-', '.'][..]).collect(): empty tokens are kept.
split(s) == split_acc(s, <<>>, <<>>)

DigitValue(c) == (CHOOSE k \in 1..Len(DigitChars) : DigitChars[k] = c) - 1

RECURSIVE DecimalValue(_)
DecimalValue(d) ==
    IF d = <<>> THEN 0
    ELSE 10 * DecimalValue(SubSeq(d, 1, Len(d) - 1)) + DigitValue(d[Len(d)])

\* str::parse::<u8>(): optional leading '+', then one or more decimal digits,
\* value at most 255; anything else is an error (.ok() turns it into None).
parse_u8(s) ==
    IF s = <<>> THEN None
    ELSE LET d == IF Head(s) = "+" THEN Tail(s) ELSE s
         IN  IF d = <<>> \/ \E k \in 1..Len(d) : d[k] \notin Range(DigitChars)
             THEN None
             ELSE IF DecimalValue(d) > U8Max THEN None
                  ELSE Some(DecimalValue(d))

(***************************************************************************)
(* impl Network                                                            *)
(***************************************************************************)
base_port_PaseoCustomTypo(network) ==
    CASE network = "Polkadot"       -> 31000
      [] network = "PolkadotCustom" -> 35000
      [] network = "Kusama"         -> 32000
      [] network = "KusamaCustom"   -> 36000
      [] network = "Westend"        -> 33000
      [] network = "Paseo"          -> 34000
      [] network = "PaseoCustom"    -> 39000

base_port(network) ==
    CASE network = "Polkadot"       -> 31000
      [] network = "PolkadotCustom" -> 35000
      [] network = "Kusama"         -> 32000
      [] network = "KusamaCustom"   -> 36000
      [] network = "Westend"        -> 33000
      [] network = "Paseo"          -> 34000
      [] network = "PaseoCustom"    -> 38000

Network_from_str(s) ==
    LET l == to_lowercase(s)
    IN  CASE l = <<"p", "o", "l", "k", "a", "d", "o", "t">> -> Some("Polkadot")
          [] l = <<"k", "u", "s", "a", "m", "a">>   -> Some("Kusama")
          [] l = <<"w", "e", "s", "t", "e", "n", "d">>  -> Some("Westend")
          [] l = <<"p", "a", "s", "e", "o">>    -> Some("Paseo")
          [] OTHER            -> None

is_custom_chain(network, chain) ==
    <<network, chain>> \in
        { <<"Polkadot", "Moonbeam">>, <<"Polkadot", "Hyperbridge">>,
          <<"Polkadot", "Interlay">>, <<"Polkadot", "Acala">>,
          <<"Polkadot", "Kilt">>,     <<"Kusama", "Karura">>,
          <<"Kusama", "Kintsugi">>,   <<"Paseo", "Gargantua">> }

(***************************************************************************)
(* impl Chain                                                              *)
(***************************************************************************)
get_offset(chain, network) ==
    IF is_custom_chain(network, chain)
    THEN CASE chain = "Moonbeam"    -> 0
           [] chain = "Hyperbridge" -> 100
           [] chain = "Interlay"    -> 200
           [] chain = "Acala"       -> 300
           [] chain = "Kilt"        -> 400
           [] chain = "Karura"      -> 300
           [] chain = "Kintsugi"    -> 200
           [] chain = "Gargantua"   -> 100
           [] OTHER                 -> 0
    ELSE CASE chain = "Relay"       -> 0
           [] chain = "AssetHub"    -> 100
           [] chain = "BridgeHub"   -> 200
           [] chain = "Collectives" -> 300
           [] chain = "People"      -> 400
           [] chain = "Coretime"    -> 500
           [] chain = "Encointer"   -> 600
           [] OTHER                 -> 0

Chain_from_str(s) ==
    LET l == replace(to_lowercase(s), <<"-">>, <<>>)
    IN  CASE l = <<"r", "e", "l", "a", "y">>       -> Some("Relay")
          [] l = <<"a", "s", "s", "e", "t", "h", "u", "b">>    -> Some("AssetHub")
          [] l = <<"b", "r", "i", "d", "g", "e", "h", "u", "b">>   -> Some("BridgeHub")
          [] l = <<"c", "o", "l", "l", "e", "c", "t", "i", "v", "e", "s">> -> Some("Collectives")
          [] l = <<"p", "e", "o", "p", "l", "e">>      -> Some("People")
          [] l = <<"c", "o", "r", "e", "t", "i", "m", "e">>    -> Some("Coretime")
          [] l = <<"m", "o", "o", "n", "b", "e", "a", "m">>    -> Some("Moonbeam")
          [] l = <<"h", "y", "p", "e", "r", "b", "r", "i", "d", "g", "e">> -> Some("Hyperbridge")
          [] l = <<"i", "n", "t", "e", "r", "l", "a", "y">>    -> Some("Interlay")
          [] l = <<"a", "c", "a", "l", "a">>       -> Some("Acala")
          [] l = <<"k", "i", "l", "t">>        -> Some("Kilt")
          [] l = <<"k", "a", "r", "u", "r", "a">>      -> Some("Karura")
          [] l = <<"k", "i", "n", "t", "s", "u", "g", "i">>    -> Some("Kintsugi")
          [] l = <<"g", "a", "r", "g", "a", "n", "t", "u", "a">>   -> Some("Gargantua")
          [] l = <<"e", "n", "c", "o", "i", "n", "t", "e", "r">>   -> Some("Encointer")
          [] OTHER               -> None

(***************************************************************************)
(* impl Role                                                               *)
(***************************************************************************)
offset(role) ==
    CASE role = "Boot" -> 10
      [] role = "Val"  -> 20
      [] role = "Rpc"  -> 30

Role_from_str(s) ==
    LET l == to_lowercase(s)
    IN  CASE l = <<"b", "o", "o", "t">> -> Some("Boot")
          [] l = <<"v", "a", "l">>  -> Some("Val")
          [] l = <<"r", "p", "c">>  -> Some("Rpc")
          [] OTHER        -> None

(***************************************************************************)
(* impl NodeConfig                                                         *)
(***************************************************************************)
NodeConfig(network, chain, role, instance) ==
    [network |-> network, chain |-> chain, role |-> role, instance |-> instance]

\* The match of generate_port that selects the base (lines 160-170).
port_base(self) ==
    IF self.chain.tag = "Some" /\ is_custom_chain(self.network, self.chain.val)
    THEN base_port(CASE self.network = "Polkadot" -> "PolkadotCustom"
                     [] self.network = "Kusama"   -> "KusamaCustom"
                     [] self.network = "Paseo"    -> "PaseoCustom"
                     [] OTHER                     -> self.network)
    ELSE base_port(self.network)

\* The sum of generate_port as a mathematical integer, before it is stored
\* in a u16.
port_sum(self) ==
    port_base(self)
    + (IF self.chain.tag = "Some" THEN get_offset(self.chain.val, self.network) ELSE 0)
    + offset(self.role)
    + self.instance

generate_port(self) == port_sum(self) % U16Mod

DotYaml == <<".", "y", "a", "m", "l">>

\* NodeConfig::from_name.  Each `?` is an early return of None; parts[4] on
\* a four-element vector is an out-of-bounds index, which panics.
from_name(s) ==
    LET parts == split(s)
    IN  IF Len(parts) < 2 THEN None
        ELSE LET role == Role_from_str(parts[1])
        IN  IF role.tag = "None" THEN None
            ELSE IF Len(parts) = 3
            THEN LET network  == Network_from_str(parts[2])
                     instance == parse_u8(replace(parts[3], DotYaml, <<>>))
                 IN  IF network.tag = "None" THEN None
                     ELSE IF instance.tag = "None" THEN None
                     ELSE Some(NodeConfig(network.val, None, role.val, instance.val))
            ELSE IF Len(parts) >= 4
            THEN LET chain_name == parts[2] \o <<"-">> \o parts[3]
                     chain      == Chain_from_str(chain_name)
                     network    == Network_from_str(parts[4])
                 IN  IF chain.tag = "None" THEN None
                     ELSE IF network.tag = "None" THEN None
                     ELSE IF Len(parts) < 5 THEN Panic
                     ELSE LET instance == parse_u8(replace(parts[5], DotYaml, <<>>))
                          IN  IF instance.tag = "None" THEN None
                              ELSE Some(NodeConfig(network.val, Some(chain.val),
                                                   role.val, instance.val))
            ELSE None

(***************************************************************************)
(* Input names.  A name is the '-'-join of a role part, a chain part, a    *)
(* network part, an instance part and up to MaxTrailing further tokens,    *)
(* optionally followed by ".yaml"; each part is a sequence of tokens, so   *)
(* that a part can be absent or span two tokens.                           *)
(***************************************************************************)
RECURSIVE JoinDash(_)
JoinDash(tokens) ==
    IF tokens = <<>> THEN <<>>
    ELSE IF Len(tokens) = 1 THEN tokens[1]
    ELSE tokens[1] \o <<"-">> \o JoinDash(Tail(tokens))

RoleTokens == { <<"b", "o", "o", "t">>, <<"v", "a", "l">>, <<"r", "p", "c">>, <<"R", "P", "C">>, <<"n", "o", "d", "e">> }

SingleChainTokens ==
    { <<"c", "o", "l", "l", "e", "c", "t", "i", "v", "e", "s">>, <<"p", "e", "o", "p", "l", "e">>, <<"c", "o", "r", "e", "t", "i", "m", "e">>, <<"e", "n", "c", "o", "i", "n", "t", "e", "r">>, <<"r", "e", "l", "a", "y">>,
      <<"m", "o", "o", "n", "b", "e", "a", "m">>, <<"h", "y", "p", "e", "r", "b", "r", "i", "d", "g", "e">>, <<"i", "n", "t", "e", "r", "l", "a", "y">>, <<"a", "c", "a", "l", "a">>, <<"k", "i", "l", "t">>,
      <<"k", "a", "r", "u", "r", "a">>, <<"k", "i", "n", "t", "s", "u", "g", "i">>, <<"g", "a", "r", "g", "a", "n", "t", "u", "a">>, <<"n", "e", "x", "u", "s">> }

ChainParts ==
    { <<>>, << <<"a", "s", "s", "e", "t">>, <<"h", "u", "b">> >>, << <<"b", "r", "i", "d", "g", "e">>, <<"h", "u", "b">> >>, << <<"k", "i", "l">>, <<"t">> >> }
    \cup { <<w>> : w \in SingleChainTokens }
    \cup { <<w, <<>> >> : w \in SingleChainTokens }

NetworkParts ==
    { <<>>, << <<"p", "o", "l", "k", "a", "d", "o", "t">> >>, << <<"k", "u", "s", "a", "m", "a">> >>, << <<"w", "e", "s", "t", "e", "n", "d">> >>,
      << <<"p", "a", "s", "e", "o">> >>, << <<"r", "o", "c", "o", "c", "o">> >> }

InstanceParts ==
    { <<>>, << <<"0", "0">> >>, << <<"0", "1">> >>, << <<"0", "9">> >>, << <<"1", "0">> >>, << <<"9", "9">> >>,
      << <<"2", "5", "5">> >>, << <<"2", "5", "6">> >>, << <<"+", "1">> >>, << <<"x", "1">> >> }

TrailingPart(k) == [j \in 1..k |-> <<"0", "2">>]

MkName(role, chain, network, instance, k, yaml) ==
    JoinDash(<<role>> \o chain \o network \o instance \o TrailingPart(k))
    \o (IF yaml THEN DotYaml ELSE <<>>)

Names ==
    { MkName(r, c, n, i, k, y) :
        r \in RoleTokens, c \in ChainParts, n \in NetworkParts,
        i \in InstanceParts, k \in 0..MaxTrailing, y \in BOOLEAN }
    \cup { <<>>, <<"r", "p", "c">> }

(***************************************************************************)
(* fn main: parse the argument, call from_name, print the port or the      *)
(* error message.                                                          *)
(***************************************************************************)
Init ==
    /\ name \in Names
    /\ pc = "main"
    /\ config = None
    /\ stdout = <<>>
    /\ stderr = <<>>

\* from_name returns (line 226): main goes on to the match.
CallFromName ==
    /\ pc = "main"
    /\ from_name(name).tag # "Panic"
    /\ config' = from_name(name)
    /\ pc' = "match"
    /\ UNCHANGED <<name, stdout, stderr>>

\* from_name panics on parts[4] (line 203): the process aborts in main.
FromNamePanics ==
    /\ pc = "main"
    /\ from_name(name).tag = "Panic"
    /\ pc' = "panicked"
    /\ UNCHANGED <<name, config, stdout, stderr>>

\* Some(config) => println!("{}", config.generate_port())
PrintPort ==
    /\ pc = "match"
    /\ config.tag = "Some"
    /\ stdout' = Append(stdout, generate_port(config.val))
    /\ pc' = "exit"
    /\ UNCHANGED <<name, config, stderr>>

\* None => eprintln!("Invalid node name format")
PrintError ==
    /\ pc = "match"
    /\ config.tag = "None"
    /\ stderr' = Append(stderr, "Invalid node name format")
    /\ pc' = "exit"
    /\ UNCHANGED <<name, config, stdout>>

Next == CallFromName \/ FromNamePanics \/ PrintPort \/ PrintError

Spec == Init /\ [][Next]_vars

\* What the call of from_name in main came to, once it has been made.
Outcome == IF pc = "panicked" THEN Panic ELSE config

Called == pc # "main"

(***************************************************************************)
(* Tables of the specification, as the claims state them: name tokens and  *)
(* the numbers the specification attaches to them.                         *)
(***************************************************************************)
ClaimRoles ==
    { [tok |-> <<"b", "o", "o", "t">>, role |-> "Boot", off |-> 10],
      [tok |-> <<"v", "a", "l">>,  role |-> "Val",  off |-> 20],
      [tok |-> <<"r", "p", "c">>,  role |-> "Rpc",  off |-> 30] }

ClaimNetworks ==
    { [tok |-> <<"p", "o", "l", "k", "a", "d", "o", "t">>, net |-> "Polkadot", base |-> 31000],
      [tok |-> <<"k", "u", "s", "a", "m", "a">>,   net |-> "Kusama",   base |-> 32000],
      [tok |-> <<"w", "e", "s", "t", "e", "n", "d">>,  net |-> "Westend",  base |-> 33000],
      [tok |-> <<"p", "a", "s", "e", "o">>,    net |-> "Paseo",    base |-> 34000] }

ClaimSystemChains ==
    { [part |-> <<>>,                        off |-> 0],
      [part |-> << <<"a", "s", "s", "e", "t">>, <<"h", "u", "b">> >>,    off |-> 100],
      [part |-> << <<"b", "r", "i", "d", "g", "e">>, <<"h", "u", "b">> >>,   off |-> 200],
      [part |-> << <<"c", "o", "l", "l", "e", "c", "t", "i", "v", "e", "s">> >>,       off |-> 300],
      [part |-> << <<"p", "e", "o", "p", "l", "e">> >>,            off |-> 400],
      [part |-> << <<"c", "o", "r", "e", "t", "i", "m", "e">> >>,          off |-> 500],
      [part |-> << <<"e", "n", "c", "o", "i", "n", "t", "e", "r">> >>,         off |-> 600] }

ClaimCustomChains ==
    { [tok |-> <<"m", "o", "o", "n", "b", "e", "a", "m">>,    net |-> "Polkadot", base |-> 35000, off |-> 0],
      [tok |-> <<"h", "y", "p", "e", "r", "b", "r", "i", "d", "g", "e">>, net |-> "Polkadot", base |-> 35000, off |-> 100],
      [tok |-> <<"i", "n", "t", "e", "r", "l", "a", "y">>,    net |-> "Polkadot", base |-> 35000, off |-> 200],
      [tok |-> <<"a", "c", "a", "l", "a">>,       net |-> "Polkadot", base |-> 35000, off |-> 300],
      [tok |-> <<"k", "i", "l", "t">>,        net |-> "Polkadot", base |-> 35000, off |-> 400],
      [tok |-> <<"k", "a", "r", "u", "r", "a">>,      net |-> "Kusama",   base |-> 36000, off |-> 300],
      [tok |-> <<"k", "i", "n", "t", "s", "u", "g", "i">>,    net |-> "Kusama",   base |-> 36000, off |-> 200],
      [tok |-> <<"g", "a", "r", "g", "a", "n", "t", "u", "a">>,   net |-> "Paseo",    base |-> 38000, off |-> 100] }

TwoDigitInstances ==
    { [tok |-> <<"0", "0">>, val |-> 0],  [tok |-> <<"0", "1">>, val |-> 1],
      [tok |-> <<"0", "9">>, val |-> 9],  [tok |-> <<"1", "0">>, val |-> 10],
      [tok |-> <<"9", "9">>, val |-> 99] }

\* The two-digit instances that every reading of the specification's ranges
\* allows for every role in the tens-offset encoding: a single digit 1..9.
SingleDigitInstances == { i \in TwoDigitInstances : i.val \in 1..9 }

\* <role>-<chain part>-<network>-<instance>, the chain part possibly empty.
Form(role, chain, network, instance) ==
    JoinDash(<<role>> \o chain \o <<network, instance>>)

\* The spellings of a one-word chain name that Chain::from_str reads as that
\* chain once the name is cut at '-': the word itself, the word followed by an
\* empty token, and (for kilt) the word hyphenated.
Spellings(w) ==
    { <<w>>, <<w, <<>> >> } \cup (IF w = <<"k", "i", "l", "t">> THEN { << <<"k", "i", "l">>, <<"t">> >> } ELSE {})

\* C1: every relay-form or system-chain-form name is accepted and its port is
\* network base + chain offset + role offset + instance (stated for the
\* instances 01..09, which no range rule of the specification excludes).
C1Cases ==
    { [name |-> Form(r.tok, c.part, n.tok, i.tok),
       port |-> n.base + c.off + r.off + i.val] :
        r \in ClaimRoles, c \in ClaimSystemChains, n \in ClaimNetworks,
        i \in SingleDigitInstances }

C1_SystemChainPort ==
    \A e \in C1Cases :
        (Called /\ name = e.name) =>
            /\ Outcome.tag = "Some"
            /\ pc = "exit" => stdout = <<e.port>>

\* C2: every name whose chain is a single-token custom chain of its network is
\* accepted and its port is custom base + custom offset + role offset +
\* instance (stated for the instances 01..09).
OwnNetwork(c) == CHOOSE m \in ClaimNetworks : m.net = c.net

C2Cases ==
    { [name |-> Form(r.tok, <<c.tok>>, OwnNetwork(c).tok, i.tok),
       port |-> c.base + c.off + r.off + i.val] :
        r \in ClaimRoles, c \in ClaimCustomChains, i \in SingleDigitInstances }

C2_CustomChainPort ==
    \A e \in C2Cases :
        (Called /\ name = e.name) =>
            /\ Outcome.tag = "Some"
            /\ pc = "exit" => stdout = <<e.port>>

\* C3: a name of relay, system-chain or custom-chain form followed by ".yaml"
\* has the outcome of the name without the suffix.
C3Plain ==
    { Form(r.tok, c.part, n.tok, i) :
        r \in ClaimRoles, c \in ClaimSystemChains, n \in ClaimNetworks,
        i \in { j.tok : j \in TwoDigitInstances } }
    \cup
    { Form(r.tok, <<c.tok>>, OwnNetwork(c).tok, i) :
        r \in ClaimRoles, c \in ClaimCustomChains,
        i \in { j.tok : j \in TwoDigitInstances } }

C3_YamlSuffixStripped ==
    \A p \in C3Plain :
        (Called /\ name = p \o DotYaml) => Outcome = from_name(p)

\* C4: a name with role rpc and instance 0, or with an instance above 9, is
\* rejected and no port is printed.
C4Names ==
    { Form(q[1].tok, q[2], q[3].tok, q[4].tok) :
        q \in { t \in ClaimRoles
                      \X ({ s.part : s \in ClaimSystemChains }
                          \cup UNION { Spellings(k.tok) : k \in ClaimCustomChains })
                      \X ClaimNetworks
                      \X (TwoDigitInstances \cup { [tok |-> <<"2", "5", "5">>, val |-> 255] }) :
                  t[4].val > 9 \/ (t[4].val = 0 /\ t[1].role = "Rpc") } }

C4_OutOfRangeRejected ==
    \A n \in C4Names :
        (Called /\ name = n) => (Outcome.tag = "None" /\ stdout = <<>>)

\* C5: a name that combines a custom chain with a network whose custom table
\* does not hold it never yields a port.
C5Names ==
    { Form(q[1].tok, q[2], q[3].tok, q[4]) :
        q \in UNION { ClaimRoles \X Spellings(k.tok)
                        \X { n \in ClaimNetworks : n.net # k.net }
                        \X { j.tok : j \in SingleDigitInstances } :
                    k \in ClaimCustomChains } }

C5_CustomChainNetworkScoped ==
    \A n \in C5Names :
        (Called /\ name = n) => (Outcome.tag # "Some" /\ stdout = <<>>)

\* C6: two distinct configs that from_name can return never have the same port.
AcceptedConfigs ==
    { from_name(n).val : n \in { m \in Names : from_name(m).tag = "Some" } }

C6_PortInjective ==
    (pc = "exit" /\ config.tag = "Some") =>
        \A other \in AcceptedConfigs :
            other # config.val => generate_port(other) # stdout[1]

\* C7: a name written with the alias nexus is accepted and has the outcome of
\* the same name written with hyperbridge.
C7Cases ==
    { [alias |-> Form(r.tok, <<<<"n", "e", "x", "u", "s">>>> \o pad, n.tok, i),
       canon |-> Form(r.tok, <<<<"h", "y", "p", "e", "r", "b", "r", "i", "d", "g", "e">>>> \o pad, n.tok, i)] :
        r \in ClaimRoles, pad \in { <<>>, << <<>> >> },
        n \in {m \in ClaimNetworks : m.net = "Polkadot"},
        i \in { j.tok : j \in SingleDigitInstances } }

C7_AliasSamePort ==
    \A e \in C7Cases :
        (Called /\ name = e.alias) =>
            (Outcome.tag = "Some" /\ Outcome = from_name(e.canon))

\* C8: from_name never aborts; main always ends having printed exactly one of
\* a port and the error message.
C8_NeverAborts ==
    /\ pc # "panicked"
    /\ pc = "exit" => ((stdout # <<>>) # (stderr # <<>>))

\* C9: in every accepted name the role is the first token, the instance the
\* last, the network the one before the last, and the chain the tokens
\* between role and network rejoined with '-'.
NameTokens(s) ==
    split(IF Len(s) >= Len(DotYaml)
             /\ SubSeq(s, Len(s) - Len(DotYaml) + 1, Len(s)) = DotYaml
          THEN SubSeq(s, 1, Len(s) - Len(DotYaml))
          ELSE s)

C9_FieldsRelativeToEnds ==
    (Called /\ Outcome.tag = "Some") =>
        LET toks == NameTokens(name)
            k    == Len(toks)
            cfg  == config.val
        IN  /\ k >= 3
            /\ Role_from_str(toks[1]) = Some(cfg.role)
            /\ parse_u8(toks[k]) = Some(cfg.instance)
            /\ Network_from_str(toks[k - 1]) = Some(cfg.network)
            /\ IF k = 3 THEN cfg.chain = None
               ELSE cfg.chain = Chain_from_str(JoinDash(SubSeq(toks, 2, k - 2)))

\* C10: for every config from_name returns, with any instance 0..255 in its
\* place, the port sum fits in 16 bits and lies in 31010..38885, and the port
\* printed is that sum.
PortRange == 31010..38885

C10_PortFitsU16 ==
    (Called /\ Outcome.tag = "Some") =>
        /\ \A i \in 0..U8Max :
              LET s == port_sum([config.val EXCEPT !.instance = i])
              IN  s < U16Mod /\ s \in PortRange
        /\ pc = "exit" =>
              stdout = <<port_sum(config.val)>> /\ stdout[1] \in PortRange

\* The largest port: rpc, instance 255, Gargantua under Paseo's custom base.
C10_Witness ==
    /\ pc = "exit"
    /\ config = Some(NodeConfig("Paseo", Some("Gargantua"), "Rpc", U8Max))
    /\ stdout = <<38385>>
====
